---- MODULE Spec2Model ----
(***************************************************************************)
(* Model of CommentParser (src/comment_parsing.py) and of the sliding      *)
(* window of PlidWithMagika.identify (src/plid.py).                        *)
(*                                                                         *)
(* A text is a sequence of one-character strings.  Offsets are Python's:   *)
(* 0-based, a match is the half-open region [start, end).                  *)
(***************************************************************************)
EXTENDS Integers, Sequences, FiniteSets

\* ------------------------------------------------------------------------
\* Characters the patterns of comment_parsing.py tell apart (CR only in that
\* `.` and `$` do not: to re it is a character like any other).  Every
\* other character behaves like PLAIN in all of them.
DQ == "\""
SQ == "'"
\* The backtick; the TLA+ lexer takes no backtick in a string.
BT == "BACKTICK"
BS == "\\"
LF == "\n"
CR == "\r"
SLASH == "/"
STAR == "*"
HASH == "#"
PLAIN == "a"
\* What At gives beyond the end of the text.
EOF == "EOF"

\* ------------------------------------------------------------------------
\* Bounds of the model.
MaxLen == 3
MaxLitLen == 5
MaxTripleLen == 7
MaxBlockLen == 5
MaxTextLen == 8
MaxSegments == 4

Alphabet == {DQ, SQ, BT, BS, LF, CR, SLASH, STAR, HASH, PLAIN}
LitAlphabet == {DQ, SQ, BT, BS, LF, SLASH, HASH, PLAIN}
TripleAlphabet == {DQ, SQ, BS, HASH}
BlockAlphabet == {SLASH, STAR, DQ, SQ, HASH, PLAIN}

Texts(alpha, n) == UNION {[1..k -> alpha] : k \in 0..n}

\* ------------------------------------------------------------------------
\* Language names, as sequences of characters.
UpperCase == <<"A","B","C","D","E","F","G","H","I","J","K","L","M",
               "N","O","P","Q","R","S","T","U","V","W","X","Y","Z">>
LowerCase == <<"a","b","c","d","e","f","g","h","i","j","k","l","m",
               "n","o","p","q","r","s","t","u","v","w","x","y","z">>

LowerChar(c) ==
    IF \E k \in 1..26 : UpperCase[k] = c
    THEN LowerCase[CHOOSE k \in 1..26 : UpperCase[k] = c]
    ELSE c

\* str.lower()
Lower(s) == [i \in 1..Len(s) |-> LowerChar(s[i])]

python == <<"p","y","t","h","o","n">>
c == <<"c">>
cpp == <<"c","+","+">>
java == <<"j","a","v","a">>
csharp == <<"c","#">>
js == <<"j","s">>
go == <<"g","o">>
javascript == <<"j","a","v","a","s","c","r","i","p","t">>
php == <<"p","h","p">>

SupportedNames == {python, c, cpp, java, csharp, js, go, javascript, php}

\* The spellings the calls of the model pass as `language`.
LanguageInputs ==
    SupportedNames \cup
    { <<"P","y","t","h","o","n">>, <<"P","Y","T","H","O","N">>,
      <<"C">>, <<"C","+","+">>, <<"J","a","v","a">>, <<"C","#">>,
      <<"J","S">>, <<"G","o">>, <<"P","H","P">>,
      <<"c","o","b","o","l">>, <<"C","O","B","O","L">>, <<>>, <<"p","y">> }

\* ------------------------------------------------------------------------
\* The regex components of CommentParser.__init__, by what re matches.

At(code, i) == IF i >= 0 /\ i < Len(code) THEN code[i + 1] ELSE EOF

\* (?:\\.|[^d\\])*d from offset j: the end of the match, or -1.  The two
\* branches of the loop and the closing delimiter start with different
\* characters, so backtracking finds nothing the first try does not.
\* `.` is compiled without re.DOTALL: it does not match LF.
RECURSIVE QuotedBody(_, _, _)
QuotedBody(d, code, j) ==
    IF j >= Len(code) THEN -1
    ELSE IF At(code, j) = BS
         THEN IF j + 1 < Len(code) /\ At(code, j + 1) # LF
              THEN QuotedBody(d, code, j + 2)
              ELSE -1
         ELSE IF At(code, j) = d THEN j + 1
         ELSE QuotedBody(d, code, j + 1)

\* d(?:\\.|[^d\\])*d
Quoted(d, code, i) ==
    IF At(code, i) # d THEN -1 ELSE QuotedBody(d, code, i + 1)

\* QuotedStrict with its lookahead (?!dd) left out.
QuotedStrictNoLookahead(d, code, i) ==
    IF At(code, i) # d THEN -1 ELSE QuotedBody(d, code, i + 1)

\* d(?!dd)(?:\\.|[^d\\])*d
QuotedStrict(d, code, i) ==
    IF At(code, i) # d THEN -1
    ELSE IF At(code, i + 1) = d /\ At(code, i + 2) = d THEN -1
    ELSE QuotedBody(d, code, i + 1)

\* [\s\S]*?ddd from offset j: lazy, so the first closing triple.
RECURSIVE TripleClose(_, _, _)
TripleClose(d, code, j) ==
    IF j + 2 >= Len(code) THEN -1
    ELSE IF At(code, j) = d /\ At(code, j + 1) = d /\ At(code, j + 2) = d
         THEN j + 3
         ELSE TripleClose(d, code, j + 1)

\* ddd[\s\S]*?ddd
Triple(d, code, i) ==
    IF At(code, i) = d /\ At(code, i + 1) = d /\ At(code, i + 2) = d
    THEN TripleClose(d, code, i + 3)
    ELSE -1

\* StarSlashClose matching through to the end of the text when no */ follows.
RECURSIVE StarSlashCloseOrEnd(_, _)
StarSlashCloseOrEnd(code, j) ==
    IF j + 1 >= Len(code) THEN Len(code)
    ELSE IF At(code, j) = STAR /\ At(code, j + 1) = SLASH THEN j + 2
         ELSE StarSlashCloseOrEnd(code, j + 1)

\* [\s\S]*?\*/ from offset j.
RECURSIVE StarSlashClose(_, _)
StarSlashClose(code, j) ==
    IF j + 1 >= Len(code) THEN -1
    ELSE IF At(code, j) = STAR /\ At(code, j + 1) = SLASH THEN j + 2
         ELSE StarSlashClose(code, j + 1)

\* /\*[\s\S]*?\*/
SlashStar(code, i) ==
    IF At(code, i) = SLASH /\ At(code, i + 1) = STAR
    THEN StarSlashClose(code, i + 2)
    ELSE -1

\* .*?$ under re.MULTILINE from offset j: up to the next LF or the end.
RECURSIVE LineEnd(_, _)
LineEnd(code, j) ==
    IF j >= Len(code) \/ At(code, j) = LF THEN j ELSE LineEnd(code, j + 1)

\* //.*?$
SlashSlash(code, i) ==
    IF At(code, i) = SLASH /\ At(code, i + 1) = SLASH
    THEN LineEnd(code, i + 2)
    ELSE -1

\* #.*?$
Hash(code, i) ==
    IF At(code, i) = HASH THEN LineEnd(code, i + 1) ELSE -1

\* One alternative of the compiled pattern tried at offset i.
RuleEnd(rule, code, i) ==
    CASE rule = "_double_quotes" -> Quoted(DQ, code, i)
      [] rule = "_single_quotes" -> Quoted(SQ, code, i)
      [] rule = "_double_quotes_strict" -> QuotedStrict(DQ, code, i)
      [] rule = "_single_quotes_strict" -> QuotedStrict(SQ, code, i)
      [] rule = "_backticks" -> Quoted(BT, code, i)
      [] rule = "_py_triple_double" -> Triple(DQ, code, i)
      [] rule = "_py_triple_single" -> Triple(SQ, code, i)
      [] rule = "_slash_slash" -> SlashSlash(code, i)
      [] rule = "_slash_star" -> SlashStar(code, i)
      [] rule = "_hash" -> Hash(code, i)

\* ------------------------------------------------------------------------
\* CommentParser._get_pattern: the pattern (SKIP)|(KEEP) of a language, or
\* ok = FALSE where the code raises ValueError.
NoPattern == [ok |-> FALSE, skippable |-> <<>>, keepable |-> <<>>]

CStyle == [ok |-> TRUE,
           skippable |-> <<"_double_quotes", "_single_quotes">>,
           keepable |-> <<"_slash_slash", "_slash_star">>]

\* PatternOf with the C-style rules for every name it does not know.
PatternOfDefaultC(lang) ==
    IF lang = python
    THEN [ok |-> TRUE,
          skippable |-> <<"_double_quotes_strict", "_single_quotes_strict">>,
          keepable |-> <<"_hash", "_py_triple_double", "_py_triple_single">>]
    ELSE IF lang \in {js, go, javascript}
    THEN [ok |-> TRUE,
          skippable |-> <<"_double_quotes", "_single_quotes", "_backticks">>,
          keepable |-> <<"_slash_slash", "_slash_star">>]
    ELSE IF lang = php
    THEN [ok |-> TRUE,
          skippable |-> <<"_double_quotes", "_single_quotes">>,
          keepable |-> <<"_slash_slash", "_hash", "_slash_star">>]
    ELSE CStyle

\* PatternOf with the php branch left out.
PatternOfNoPhp(lang) ==
    IF lang = python
    THEN [ok |-> TRUE,
          skippable |-> <<"_double_quotes_strict", "_single_quotes_strict">>,
          keepable |-> <<"_hash", "_py_triple_double", "_py_triple_single">>]
    ELSE IF lang \in {c, cpp, java, csharp}
    THEN CStyle
    ELSE IF lang \in {js, go, javascript}
    THEN [ok |-> TRUE,
          skippable |-> <<"_double_quotes", "_single_quotes", "_backticks">>,
          keepable |-> <<"_slash_slash", "_slash_star">>]
    ELSE NoPattern

PatternOf(lang) ==
    IF lang = python
    THEN [ok |-> TRUE,
          skippable |-> <<"_double_quotes_strict", "_single_quotes_strict">>,
          keepable |-> <<"_hash", "_py_triple_double", "_py_triple_single">>]
    ELSE IF lang \in {c, cpp, java, csharp}
    THEN [ok |-> TRUE,
          skippable |-> <<"_double_quotes", "_single_quotes">>,
          keepable |-> <<"_slash_slash", "_slash_star">>]
    ELSE IF lang \in {js, go, javascript}
    THEN [ok |-> TRUE,
          skippable |-> <<"_double_quotes", "_single_quotes", "_backticks">>,
          keepable |-> <<"_slash_slash", "_slash_star">>]
    ELSE IF lang = php
    THEN [ok |-> TRUE,
          skippable |-> <<"_double_quotes", "_single_quotes">>,
          keepable |-> <<"_slash_slash", "_hash", "_slash_star">>]
    ELSE NoPattern

\* GetPattern without language.lower().
GetPatternNoLower(lang_in) == PatternOf(lang_in)

GetPattern(lang_in) == PatternOf(Lower(lang_in))

\* ------------------------------------------------------------------------
\* The compiled pattern at work: re tries the alternatives in order at one
\* start offset, group 1 (skippable) before group 2 (keepable), and the
\* start offsets in increasing order.
NoMatch == [group |-> 0, start |-> -1, end |-> -1]

RECURSIVE FirstAlt(_, _, _, _)
FirstAlt(rules, code, i, k) ==
    IF k > Len(rules) THEN -1
    ELSE IF RuleEnd(rules[k], code, i) >= 0 THEN RuleEnd(rules[k], code, i)
    ELSE FirstAlt(rules, code, i, k + 1)

MatchAt(pat, code, i) ==
    IF FirstAlt(pat.skippable, code, i, 1) >= 0
    THEN [group |-> 1, start |-> i, end |-> FirstAlt(pat.skippable, code, i, 1)]
    ELSE IF FirstAlt(pat.keepable, code, i, 1) >= 0
    THEN [group |-> 2, start |-> i, end |-> FirstAlt(pat.keepable, code, i, 1)]
    ELSE NoMatch

RECURSIVE Search(_, _, _)
Search(pat, code, from) ==
    IF from >= Len(code) THEN NoMatch
    ELSE IF MatchAt(pat, code, from).group # 0 THEN MatchAt(pat, code, from)
    ELSE Search(pat, code, from + 1)

\* Slice without the first character of the match.
SliceBody(code, start, end) == SubSeq(code, start + 2, end)

\* match.group(2): code[start:end]
Slice(code, start, end) == SubSeq(code, start + 1, end)

\* ------------------------------------------------------------------------
\* State.
\* extract_comments: code, language are the arguments; pattern, comments
\* its locals; pos is where the iterator of finditer stands; spans and
\* skipped are match.start(), match.end() of the group 2 and the group 1
\* matches so far; tried is the set of offsets at which the pattern has
\* been tried as the start of a match; error is the exception raised.
\* identify: text_len, n_segments are len(text) and the argument;
\* segment_length, indices, segment_labels, segment_label its locals; k
\* counts the turns of its for loop; segments are the (start, end) the
\* classifier was called with.
VARIABLES pc, code, language, pattern, pos, comments, spans, skipped, tried,
          error, text_len, n_segments, segment_length, indices, k, segments,
          segment_labels, segment_label

parser_vars == <<code, language, pattern, pos, comments, spans, skipped,
                 tried, error>>
plid_vars == <<text_len, n_segments, segment_length, indices, k, segments,
               segment_labels, segment_label>>
vars == <<pc, parser_vars, plid_vars>>

NoError == [type |-> "", name |-> <<>>]
NoLabel == ""

ParserIdle ==
    /\ pattern = NoPattern
    /\ pos = 0
    /\ comments = <<>>
    /\ spans = <<>>
    /\ skipped = <<>>
    /\ tried = {}
    /\ error = NoError

PlidIdle ==
    /\ segment_length = 0
    /\ indices = <<>>
    /\ k = 0
    /\ segments = <<>>
    /\ segment_labels = <<>>
    /\ segment_label = NoLabel

\* A call extract_comments(code, language).
InitParser(langs, alpha, n) ==
    /\ pc = "call"
    /\ language \in langs
    /\ code \in Texts(alpha, n)
    /\ ParserIdle
    /\ text_len = 0
    /\ n_segments = 0
    /\ PlidIdle

\* ------------------------------------------------------------------------
\* CommentParser.extract_comments

\* pattern = self._get_pattern(language), the language supported.
GetPatternOk ==
    /\ pc = "call"
    /\ GetPattern(language).ok
    /\ pattern' = GetPattern(language)
    /\ pc' = "scan"
    /\ UNCHANGED <<code, language, pos, comments, spans, skipped, tried, error>>
    /\ UNCHANGED plid_vars

\* pattern = self._get_pattern(language) raising ValueError, which
\* extract_comments does not catch.
GetPatternRaise ==
    /\ pc = "call"
    /\ ~GetPattern(language).ok
    /\ error' = [type |-> "ValueError", name |-> language]
    /\ pc' = "raised"
    /\ UNCHANGED <<code, language, pattern, pos, comments, spans, skipped, tried>>
    /\ UNCHANGED plid_vars

\* One turn of `for match in pattern.finditer(code)` whose match is a
\* group 1 match: match.group(2) is None and nothing is appended.
MatchSkip ==
    /\ pc = "scan"
    /\ LET m == Search(pattern, code, pos) IN
         /\ m.group = 1
         /\ pos' = m.end
         /\ skipped' = Append(skipped, <<m.start, m.end>>)
         /\ tried' = tried \cup (pos .. m.start)
    /\ UNCHANGED <<pc, code, language, pattern, comments, spans, error>>
    /\ UNCHANGED plid_vars

\* One turn whose match is a group 2 match: comments.append(match.group(2)).
MatchKeep ==
    /\ pc = "scan"
    /\ LET m == Search(pattern, code, pos) IN
         /\ m.group = 2
         /\ pos' = m.end
         /\ comments' = Append(comments, Slice(code, m.start, m.end))
         /\ spans' = Append(spans, <<m.start, m.end>>)
         /\ tried' = tried \cup (pos .. m.start)
    /\ UNCHANGED <<pc, code, language, pattern, skipped, error>>
    /\ UNCHANGED plid_vars

\* finditer finds no further match: the loop ends and comments is returned.
Return ==
    /\ pc = "scan"
    /\ Search(pattern, code, pos).group = 0
    /\ tried' = tried \cup (pos .. Len(code) - 1)
    /\ pos' = Len(code)
    /\ pc' = "returned"
    /\ UNCHANGED <<code, language, pattern, comments, spans, skipped, error>>
    /\ UNCHANGED plid_vars

NextParser == GetPatternOk \/ GetPatternRaise \/ MatchSkip \/ MatchKeep \/ Return

\* Calls with every spelling of the language and every short text.
Init == InitParser(LanguageInputs, Alphabet, MaxLen)
Spec == Init /\ [][NextParser]_vars

cobol == <<"c","o","b","o","l">>

\* Calls of one language of each branch of _get_pattern with longer texts.
InitLit == InitParser({python, c, js, php, cobol}, LitAlphabet, MaxLitLen)
SpecLit == InitLit /\ [][NextParser]_vars

\* Python calls with texts long enough to hold a closed triple-quoted block
\* with a body; outside a literal the backslash is a plain character, and
\* inside a literal or a block the hash is.
InitTriple == InitParser({python, cobol}, TripleAlphabet, MaxTripleLen)
SpecTriple == InitTriple /\ [][NextParser]_vars

\* Calls with texts over the characters of block comments and triple quotes.
InitBlock == InitParser({python, c, js, php, cobol}, BlockAlphabet, MaxBlockLen)
SpecBlock == InitBlock /\ [][NextParser]_vars

\* ------------------------------------------------------------------------
\* PlidWithMagika.identify(text, n_segments, overlap_ratio = 0.5)

Max(a, b) == IF a >= b THEN a ELSE b
Min(a, b) == IF a <= b THEN a ELSE b

\* list(range(0, stop, step)), step >= 1
Range0(stop, step) ==
    [i \in 1 .. (IF stop > 0 THEN (stop + step - 1) \div step ELSE 0)
        |-> (i - 1) * step]

\* max(1, text_len // n_segments)
SegmentLength(tl, n) == Max(1, tl \div n)

\* max(1, int(segment_length * (1 - overlap_ratio))) at overlap_ratio 0.5
Step(sl) == Max(1, sl \div 2)

\* indices, after the append that is to cover the last region.
Indices(tl, n) ==
    LET sl == SegmentLength(tl, n)
        base == Range0(Max(tl - sl + 1, 1), Step(sl))
    IN IF (Len(base) < n /\ tl > sl)
          \/ (Len(base) > 0 /\ base[Len(base)] + sl < tl)
       THEN Append(base, tl - sl)
       ELSE base

\* indices[:n_segments]
Classified(idx, n) == SubSeq(idx, 1, Min(Len(idx), n))

\* The labels the classifier may answer; "txt" is none of MAGIKA2SEMEVAL.
MagikaLabels == {"python", "cpp", "txt"}

Magika2SemEvalKeys ==
    {"python", "cpp", "java", "go", "php", "cs", "c", "javascript"}

MAGIKA2SEMEVAL(label) ==
    CASE label = "python" -> "Python"
      [] label = "cpp" -> "C++"
      [] label = "java" -> "Java"
      [] label = "go" -> "Go"
      [] label = "php" -> "PHP"
      [] label = "cs" -> "C#"
      [] label = "c" -> "C"
      [] label = "javascript" -> "JS"

PlidFeaturesKeys == {"Python", "C++", "Java", "Go", "PHP", "C#", "C", "JS"}

MostCommonN == 10

\* Counter(labels).most_common(10), the labels only: the highest count
\* first, equal counts in the order of first occurrence.
MostCommon(labels) ==
    LET distinct == {labels[i] : i \in DOMAIN labels}
        count(l) == Cardinality({i \in DOMAIN labels : labels[i] = l})
        first(l) == CHOOSE i \in DOMAIN labels :
                       labels[i] = l /\ \A j \in 1 .. i - 1 : labels[j] # l
        before(a, b) == count(a) > count(b)
                        \/ (count(a) = count(b) /\ first(a) < first(b))
        rank(l) == 1 + Cardinality({m \in distinct : before(m, l)})
        all == [r \in 1 .. Cardinality(distinct)
                   |-> CHOOSE l \in distinct : rank(l) = r]
    IN SubSeq(all, 1, Min(Len(all), MostCommonN))

InKeys(label) == label \in Magika2SemEvalKeys

\* segment_labels as lines 180-181 rebind it: the most common labels that
\* are keys of MAGIKA2SEMEVAL, mapped to its names.
Mapped(labels) ==
    LET kept == SelectSeq(MostCommon(labels), InKeys)
    IN [n \in 1 .. Len(kept) |-> MAGIKA2SEMEVAL(kept[n])]

\* What identify may return: the first mapped name, else random.choice.
Voted(labels) ==
    IF Len(Mapped(labels)) > 0 THEN {Mapped(labels)[1]} ELSE PlidFeaturesKeys

InitPlid ==
    /\ pc = "identify"
    /\ text_len \in 0 .. MaxTextLen
    /\ n_segments \in 0 .. MaxSegments
    /\ PlidIdle
    /\ code = <<>>
    /\ language = <<>>
    /\ ParserIdle

\* n_segments <= 1 or text_len == 0: segment_labels = []
NoSweep ==
    /\ pc = "identify"
    /\ (n_segments <= 1 \/ text_len = 0)
    /\ pc' = "vote"
    /\ UNCHANGED <<text_len, n_segments, segment_length, indices, k, segments,
                   segment_labels, segment_label>>
    /\ UNCHANGED parser_vars

\* The else branch up to the for loop: segment_length and indices.
Sweep ==
    /\ pc = "identify"
    /\ ~(n_segments <= 1 \/ text_len = 0)
    /\ segment_length' = SegmentLength(text_len, n_segments)
    /\ indices' = Indices(text_len, n_segments)
    /\ pc' = "classify"
    /\ UNCHANGED <<text_len, n_segments, k, segments, segment_labels,
                   segment_label>>
    /\ UNCHANGED parser_vars

\* One turn of `for start in indices[:n_segments]`: the classifier is
\* called with text[start:end] and answers some label, which is bound to
\* segment_label and appended to segment_labels.
Classify ==
    /\ pc = "classify"
    /\ k < Len(Classified(indices, n_segments))
    /\ \E label \in MagikaLabels :
         /\ segment_label' = label
         /\ segment_labels' = Append(segment_labels, label)
    /\ segments' = Append(segments,
                          <<Classified(indices, n_segments)[k + 1],
                            Classified(indices, n_segments)[k + 1]
                               + segment_length>>)
    /\ k' = k + 1
    /\ UNCHANGED <<pc, text_len, n_segments, segment_length, indices>>
    /\ UNCHANGED parser_vars

\* The for loop is over.
EndSweep ==
    /\ pc = "classify"
    /\ k >= Len(Classified(indices, n_segments))
    /\ pc' = "vote"
    /\ UNCHANGED <<text_len, n_segments, segment_length, indices, k, segments,
                   segment_labels, segment_label>>
    /\ UNCHANGED parser_vars

\* The vote and the return: segment_labels is rebound to the mapped names
\* and segment_label is its first, or a random key of PLID_FEATURES.
Vote ==
    /\ pc = "vote"
    /\ segment_labels' = Mapped(segment_labels)
    /\ segment_label' \in Voted(segment_labels)
    /\ pc' = "identified"
    /\ UNCHANGED <<text_len, n_segments, segment_length, indices, k, segments>>
    /\ UNCHANGED parser_vars

NextPlid == NoSweep \/ Sweep \/ Classify \/ EndSweep \/ Vote

SpecPlid == InitPlid /\ [][NextPlid]_vars

\* ------------------------------------------------------------------------
\* Vocabulary of the properties.

SpanSet(ss) == {ss[n] : n \in DOMAIN ss}

Overlaps(span, a, b) == span[1] < b /\ a < span[2]

\* The delimiter of a quoted-string rule.
DelimOf(rule) ==
    CASE rule \in {"_double_quotes", "_double_quotes_strict"} -> DQ
      [] rule \in {"_single_quotes", "_single_quotes_strict"} -> SQ
      [] rule = "_backticks" -> BT

DialectDelims(pat) == {DelimOf(pat.skippable[n]) : n \in DOMAIN pat.skippable}

\* The dialect's quoted-string rules carry the triple-quote exclusion.
TripleExcluded(pat) ==
    \E n \in DOMAIN pat.skippable :
        pat.skippable[n] \in {"_double_quotes_strict", "_single_quotes_strict"}

\* A well-formed literal body from offset j, as the specification words it:
\* a backslash takes the next character with it, whatever it is, and the
\* first delimiter not taken so ends the literal.  The end, or -1.
RECURSIVE WellFormedEnd(_, _, _)
WellFormedEnd(d, text, j) ==
    IF j >= Len(text) THEN -1
    ELSE IF At(text, j) = BS
         THEN IF j + 1 < Len(text) THEN WellFormedEnd(d, text, j + 2) ELSE -1
         ELSE IF At(text, j) = d THEN j + 1
         ELSE WellFormedEnd(d, text, j + 1)

\* The end of the well-formed literal of the dialect that opens at offset i,
\* or -1 when none does.
LiteralEnd(pat, text, i) ==
    IF /\ At(text, i) \in DialectDelims(pat)
       /\ ~(TripleExcluded(pat) /\ At(text, i + 1) = At(text, i)
                                /\ At(text, i + 2) = At(text, i))
    THEN WellFormedEnd(At(text, i), text, i + 1)
    ELSE -1

\* text[a:b] holds #, // or /*
HasCommentStart(text, a, b) ==
    \E j \in a .. b - 1 :
        \/ At(text, j) = HASH
        \/ At(text, j) = SLASH /\ j + 1 < b /\ At(text, j + 1) \in {SLASH, STAR}

HasBackslash(text, a, b) == \E j \in a .. b - 1 : At(text, j) = BS

\* ------------------------------------------------------------------------
\* C1 (string safety): once extract_comments has returned, for every offset
\* the scan tried at which a well-formed literal of the dialect opens whose
\* body holds comment-start characters, no returned comment overlaps a
\* character of that literal.
C1_StringSafety ==
    pc = "returned" =>
        \A i \in tried :
            LET e == LiteralEnd(pattern, code, i) IN
            (e >= 0 /\ HasCommentStart(code, i + 1, e - 1)) =>
                \A sp \in SpanSet(spans) : ~Overlaps(sp, i, e)

\* ------------------------------------------------------------------------
\* C7 (escapes in quoted literals): once extract_comments has returned, every
\* well-formed literal with a backslash in its body that opens at an offset
\* the scan tried, each backslash taking the one character after it whatever
\* it is, was skipped whole: one group 1 match from its opening delimiter
\* through its first unescaped closing delimiter.
C7_EscapedLiteralSkipped ==
    pc = "returned" =>
        \A i \in tried :
            LET e == LiteralEnd(pattern, code, i) IN
            (e >= 0 /\ HasBackslash(code, i + 1, e - 1)) =>
                <<i, e>> \in SpanSet(skipped)

\* ------------------------------------------------------------------------
\* C2 (order and verbatim text): at every point of the scan the comments
\* collected so far are, one for one, the texts of regions of the input that
\* begin with a comment delimiter, lie inside the input, do not overlap and
\* come in strictly increasing order of their start offset.
C2_OrderedVerbatim ==
    pc \in {"scan", "returned"} =>
        /\ Len(comments) = Len(spans)
        /\ \A n \in DOMAIN spans :
              /\ 0 <= spans[n][1] /\ spans[n][1] < spans[n][2]
              /\ spans[n][2] <= Len(code)
              /\ comments[n] = SubSeq(code, spans[n][1] + 1, spans[n][2])
              /\ comments[n][1] \in {HASH, SLASH, DQ, SQ}
        /\ \A n \in 1 .. Len(spans) - 1 :
              /\ spans[n][2] <= spans[n + 1][1]
              /\ spans[n][1] < spans[n + 1][1]

C2_Witness == pc = "returned" /\ Len(comments) >= 2

\* ------------------------------------------------------------------------
\* C3 (unsupported dialect): a call whose language, lower-cased, is none of
\* the nine names never scans and never returns; it ends raised, with a
\* ValueError that carries the name as it was passed, no offset tried and
\* no comment collected.
C3_UnsupportedRaises ==
    Lower(language) \notin SupportedNames =>
        /\ pc \in {"call", "raised"}
        /\ tried = {} /\ comments = <<>> /\ skipped = <<>>
        /\ pc = "raised" => error = [type |-> "ValueError", name |-> language]
        /\ pc = "call" => ENABLED GetPatternRaise

C3_Witness ==
    pc = "raised" /\ language = <<"C","O","B","O","L">> /\ Len(code) > 0

\* ------------------------------------------------------------------------
\* C4 (case-insensitive names): after _get_pattern, every spelling that
\* differs from the language passed only in letter case resolves to the
\* pattern the call got, and once the call has returned, the scan of the same
\* text under that spelling's pattern gives the same comments in the same
\* order.
RECURSIVE ExtractAll(_, _, _)
ExtractAll(pat, text, from) ==
    LET m == Search(pat, text, from) IN
    IF m.group = 0 THEN <<>>
    ELSE IF m.group = 2
         THEN <<SubSeq(text, m.start + 1, m.end)>> \o ExtractAll(pat, text, m.end)
         ELSE ExtractAll(pat, text, m.end)

SameButCase(a, b) ==
    /\ Len(a) = Len(b)
    /\ \A n \in 1 .. Len(a) : LowerChar(a[n]) = LowerChar(b[n])

C4_CaseInsensitive ==
    pc # "call" =>
        \A other \in LanguageInputs :
            SameButCase(other, language) =>
                /\ GetPattern(other) = pattern
                /\ pc = "raised" <=> ~GetPattern(other).ok
                /\ pc = "returned" =>
                      ExtractAll(GetPattern(other), code, 0) = comments

C4_Witness ==
    pc = "returned" /\ language = <<"P","Y","T","H","O","N">> /\ Len(comments) >= 1

\* ------------------------------------------------------------------------
\* C5 (unterminated constructs).
HasRule(pat, rule) == \E n \in DOMAIN pat.keepable : pat.keepable[n] = rule

TripleAt(text, i, d) ==
    At(text, i) = d /\ At(text, i + 1) = d /\ At(text, i + 2) = d

TripleRule(d) == IF d = DQ THEN "_py_triple_double" ELSE "_py_triple_single"

\* A /* or a triple quote of the dialect opens at offset i and no closing
\* delimiter follows it.
UnterminatedAt(pat, text, i) ==
    \/ /\ HasRule(pat, "_slash_star")
       /\ At(text, i) = SLASH /\ At(text, i + 1) = STAR
       /\ ~\E j \in i + 2 .. Len(text) - 2 :
              At(text, j) = STAR /\ At(text, j + 1) = SLASH
    \/ \E d \in {DQ, SQ} :
       /\ HasRule(pat, TripleRule(d))
       /\ TripleAt(text, i, d)
       /\ ~\E j \in i + 3 .. Len(text) - 3 : TripleAt(text, j, d)

\* C5 as claimed: an unterminated opener at an offset the scan tried gives a
\* returned comment from that opener to the last character of the input.
C5_UnterminatedToEnd ==
    pc = "returned" =>
        \A i \in tried :
            UnterminatedAt(pattern, code, i) =>
                <<i, Len(code)>> \in SpanSet(spans)

\* C5 as amended: an unterminated opener at an offset the scan tried is not
\* matched: no comment and no skipped literal starts at it, and the scan
\* goes on from the opener's second character.
C5_UnterminatedNotMatched ==
    pc = "returned" =>
        \A i \in tried :
            UnterminatedAt(pattern, code, i) =>
                /\ \A sp \in SpanSet(spans) \cup SpanSet(skipped) : sp[1] # i
                /\ i + 1 < Len(code) => i + 1 \in tried

C5_Witness ==
    /\ pc = "returned"
    /\ \E i \in tried : UnterminatedAt(pattern, code, i) /\ i + 2 < Len(code)
    /\ Len(comments) >= 1

\* ------------------------------------------------------------------------
\* C6 (totality): a call with a supported language never raises; while it
\* scans it can always take its next step, its offset stays within the text,
\* and every turn of the loop either ends the scan or moves the offset
\* strictly forward, so the scan ends within len(code) turns; the empty text
\* gives the empty list.
C6_Totality ==
    /\ [](Lower(language) \in SupportedNames =>
            /\ pc # "raised"
            /\ pc = "returned" \/ ENABLED NextParser
            /\ 0 <= pos /\ pos <= Len(code)
            /\ (pc = "returned" /\ code = <<>>) => comments = <<>>)
    /\ [][pc = "scan" => (pc' = "returned" \/ pos' > pos)]_vars

C6_Witness ==
    /\ pc = "returned"
    /\ At(code, 0) = DQ /\ skipped = <<>>
    /\ Len(comments) >= 1

\* ------------------------------------------------------------------------
\* C8 (line-comment extent): every returned comment that starts with // or #
\* ends at the end of the input or right before a line terminator (LF, or
\* CR LF), and holds no character of a line terminator.
LineBreakAt(text, j) ==
    At(text, j) = LF \/ (At(text, j) = CR /\ At(text, j + 1) = LF)

IsLineComment(text, sp) ==
    \/ At(text, sp[1]) = HASH
    \/ At(text, sp[1]) = SLASH /\ At(text, sp[1] + 1) = SLASH

C8_LineCommentExtent ==
    pc = "returned" =>
        \A sp \in SpanSet(spans) :
            IsLineComment(code, sp) =>
                /\ sp[2] = Len(code) \/ LineBreakAt(code, sp[2])
                /\ \A j \in sp[1] .. sp[2] - 1 : ~LineBreakAt(code, j)

\* ------------------------------------------------------------------------
\* C9 (Python triple-quote exclusion): in a Python call that has returned,
\* at every offset the scan tried where three identical quotes begin, no
\* skipped literal starts, and if the same three quotes occur again after
\* them, the region from the opener through the first such closing triple
\* is one of the returned comments.
C9_TripleQuoteExclusion ==
    (pc = "returned" /\ Lower(language) = python) =>
        \A i \in tried : \A d \in {DQ, SQ} :
            TripleAt(code, i, d) =>
                /\ \A sk \in SpanSet(skipped) : sk[1] # i
                /\ (\E j \in i + 3 .. Len(code) - 3 : TripleAt(code, j, d)) =>
                      LET close == CHOOSE j \in i + 3 .. Len(code) - 3 :
                                      /\ TripleAt(code, j, d)
                                      /\ \A h \in i + 3 .. j - 1 : ~TripleAt(code, h, d)
                      IN /\ <<i, close + 3>> \in SpanSet(spans)
                         /\ SubSeq(code, i + 1, close + 3) \in SpanSet(comments)

\* A closed triple-quoted block with a body was returned.
C9_Witness ==
    /\ pc = "returned" /\ language = python
    /\ \E i \in tried : \E d \in {DQ, SQ} :
          /\ TripleAt(code, i, d)
          /\ \E sp \in SpanSet(spans) : sp[1] = i /\ sp[2] >= i + 7

\* ------------------------------------------------------------------------
\* C10 (sliding-window coverage): once identify has returned for a non-empty
\* text and n_segments > 1, some classified segment reaches the end of the
\* text, at most n_segments segments were classified, and every classified
\* segment starts within 0 .. len(text) - segment_length, or at 0.
C10_WindowCoverage ==
    (pc = "identified" /\ text_len > 0 /\ n_segments > 1) =>
        /\ \E sg \in SpanSet(segments) : sg[2] >= text_len
        /\ Len(segments) <= n_segments
        /\ \A sg \in SpanSet(segments) :
              (0 <= sg[1] /\ sg[1] <= text_len - segment_length) \/ sg[1] = 0

====
